---------------------------- MODULE Spec2Model ----------------------------
(***************************************************************************)
(* Model of srf-n-trf: the period-tolerance index (create_monomer_range   *)
(* and the Lapper point query), the cigar decoder (parse_cigar), the      *)
(* coordinate walker (get_aligned_paired_itvs), the Monomers record loop  *)
(* and the Regions clustering loop.                                        *)
(*                                                                         *)
(* Strings are sequences of one-character strings, so that joining,       *)
(* pushing a character and splitting act on characters as in the code.    *)
(* u32 values read from a cigar are carried as canonical decimal numerals *)
(* (sequences of digit characters without leading zeros), because a u32   *)
(* does not fit the checker's integers; they are converted to integers    *)
(* only where the walker adds them to a cursor.                            *)
(***************************************************************************)
EXTENDS Integers, Sequences, FiniteSets, TLC

VARIABLES
    pc,                   \* position of the run
    sizes,                \* requested periods (Vec<u32>)
    diff,                 \* tolerance fraction, a dyadic rational [num, den]
    monomer_period_range, \* the Lapper built by create_monomer_range
    query,                \* the value of the last point query
    valid,                \* result of the last point query: count(v, v) > 0
    cg,                   \* operation string handed to parse_cigar
    cigar_ops,            \* what parse_cigar returned: [status, ops]
    rec,                  \* the alignment record being handled
    min_length,           \* threshold of get_aligned_paired_itvs
    paired_itvs,          \* what get_aligned_paired_itvs returned: [status, itvs]
    bed,                  \* Regions: the input intervals after the initial sort
    intervals,            \* Regions: the work queue (VecDeque)
    final_intervals,      \* Regions: the finalized regions
    dst,                  \* Regions: merge distance
    min_len,              \* Regions: minimum length
    iters,                \* Regions: iterations of the merge loop so far
    monomers,             \* Monomers: annotation index, name -> motif -> Lapper
    max_seq_div,          \* Monomers: divergence ceiling
    n_recs,               \* Monomers: records taken from the sorted reader so far
    mode,                 \* Monomers: branch that handled the record in rec
    out                   \* Monomers: lines written so far

indexVars == <<sizes, diff, monomer_period_range, query, valid>>
cigarVars == <<cg, cigar_ops>>
walkVars == <<rec, min_length, paired_itvs>>

regionVars == <<bed, intervals, final_intervals, dst, min_len, iters>>

monoVars == <<monomers, max_seq_div, n_recs, mode, out>>

vars == <<pc, indexVars, cigarVars, walkVars, regionVars, monoVars>>

\* Value of a variable that the specification at hand does not use.
Idle == "idle"

IdleIndex ==
    /\ sizes = Idle /\ diff = Idle /\ monomer_period_range = Idle
    /\ query = Idle /\ valid = Idle

IdleCigar == cg = Idle /\ cigar_ops = Idle

IdleWalk == rec = Idle /\ min_length = Idle /\ paired_itvs = Idle

IdleMonomers ==
    /\ monomers = Idle /\ max_seq_div = Idle /\ n_recs = Idle
    /\ mode = Idle /\ out = Idle

IdleRegions ==
    /\ bed = Idle /\ intervals = Idle /\ final_intervals = Idle
    /\ dst = Idle /\ min_len = Idle /\ iters = Idle

\* ------------------------------------------------------------------------
\* Bounds
\* ------------------------------------------------------------------------
MaxSizes == 2
MaxPeriod == 4
MaxValue == 10

\* Tolerances.  Each is a dyadic rational, exactly representable as f32, and
\* with the periods used here p * diff, p - p * diff and p + p * diff are
\* exact in f32 as well, so the float arithmetic equals the rational one.
Diffs == {[num |-> 0, den |-> 1], [num |-> 1, den |-> 4], [num |-> 1, den |-> 2]}

\* ------------------------------------------------------------------------
\* Generic helpers
\* ------------------------------------------------------------------------
SeqsUpTo(S, n) == UNION {[1..k -> S] : k \in 0..n}

NonEmptySeqsUpTo(S, n) == UNION {[1..k -> S] : k \in 1..n}

Range(s) == {s[i] : i \in DOMAIN s}

\* ------------------------------------------------------------------------
\* Period-tolerance index
\* ------------------------------------------------------------------------
\* `x as u32` of a non-negative rational n/d: truncation.
TruncU32(n, d) == IF n < 0 THEN 0 ELSE n \div d

\* lower_bound as u32: trunc(p - p * diff), saturating at 0.
LowerBound(p, df) == TruncU32(p * (df.den - df.num), df.den)

\* upper_bound as u32 + 1: trunc(p + p * diff) + 1.
UpperBound(p, df) == TruncU32(p * (df.den + df.num), df.den) + 1

IntervalLess(a, b) == a.start < b.start \/ (a.start = b.start /\ a.stop < b.stop)

\* Lapper::new sorts the intervals and keeps the sorted starts and the
\* sorted stops as two separate vectors.
LapperNew(itvs) ==
    [intervals |-> SortSeq(itvs, IntervalLess),
     starts    |-> SortSeq([i \in DOMAIN itvs |-> itvs[i].start], <),
     stops     |-> SortSeq([i \in DOMAIN itvs |-> itvs[i].stop], <)]

create_monomer_range(szs, df) ==
    LapperNew([i \in DOMAIN szs |->
        [start |-> LowerBound(szs[i], df), stop |-> UpperBound(szs[i], df)]])

\* Lapper::bsearch_seq: the binary search of the BITS counting algorithm
\* (low = 0, high = len; elems[mid] < key moves low, otherwise high).
RECURSIVE BsearchLoop(_, _, _, _)
BsearchLoop(key, elems, low, high) ==
    IF high - low > 1
    THEN LET mid == (high + low) \div 2
         IN  IF elems[mid + 1] < key
             THEN BsearchLoop(key, elems, mid, high)
             ELSE BsearchLoop(key, elems, low, mid)
    ELSE high

BsearchSeq(key, elems) ==
    IF Len(elems) = 0 \/ elems[1] > key THEN 0
    ELSE BsearchLoop(key, elems, 0, Len(elems))

\* Lapper::count(start, stop): len - first - (len - last).
LapperCount(lapper, start, stop) ==
    LET len   == Len(lapper.intervals)
        first == BsearchSeq(start + 1, lapper.stops)
        last  == BsearchSeq(stop, lapper.starts)
    IN  len - first - (len - last)

\* The validity query of main.rs: count(v, v) > 0.
IsValidPeriod(lapper, v) == LapperCount(lapper, v, v) > 0

\* ------------------------------------------------------------------------
\* Specification of the period-tolerance index
\* ------------------------------------------------------------------------
InitPeriod ==
    /\ pc = "period_start"
    /\ sizes \in NonEmptySeqsUpTo(1..MaxPeriod, MaxSizes)
    /\ diff \in Diffs
    /\ monomer_period_range = LapperNew(<<>>)
    /\ query = 0
    /\ valid = FALSE
    /\ IdleCigar /\ IdleWalk /\ IdleRegions /\ IdleMonomers

CreateMonomerRange ==
    /\ pc = "period_start"
    /\ monomer_period_range' = create_monomer_range(sizes, diff)
    /\ pc' = "period_built"
    /\ UNCHANGED <<sizes, diff, query, valid, cigarVars, walkVars, regionVars, monoVars>>

QueryPeriod ==
    /\ pc \in {"period_built", "period_queried"}
    /\ \E v \in 0..MaxValue :
        /\ query' = v
        /\ valid' = IsValidPeriod(monomer_period_range, v)
    /\ pc' = "period_queried"
    /\ UNCHANGED <<sizes, diff, monomer_period_range, cigarVars, walkVars, regionVars, monoVars>>

NextPeriod == CreateMonomerRange \/ QueryPeriod

SpecPeriod == InitPeriod /\ [][NextPeriod]_vars

\* A requested period whose window contains v, lower bound included and
\* upper bound excluded.
InSomeWindow(v) ==
    \E i \in DOMAIN sizes :
        LowerBound(sizes[i], diff) <= v /\ v < UpperBound(sizes[i], diff)

\* C5: the validity query count(v, v) > 0 is true exactly when v lies in the
\* half-open window [trunc(p - p*diff), trunc(p + p*diff) + 1) of a requested
\* period; every requested period is valid, and for a single period the
\* exclusive upper bound is not.
C5_PointQueryIsWindowMembership ==
    pc = "period_queried" =>
        /\ valid = InSomeWindow(query)
        /\ (\E i \in DOMAIN sizes : sizes[i] = query) => valid
        /\ (Len(sizes) = 1 /\ query = UpperBound(sizes[1], diff)) => ~valid

\* ------------------------------------------------------------------------
\* Alignment-operation decoder (cigar.rs)
\* ------------------------------------------------------------------------
Digits == {"0", "1", "2", "3", "4", "5", "6", "7", "8", "9"}

DigitVal(c) ==
    CASE c = "0" -> 0 [] c = "1" -> 1 [] c = "2" -> 2 [] c = "3" -> 3
      [] c = "4" -> 4 [] c = "5" -> 5 [] c = "6" -> 6 [] c = "7" -> 7
      [] c = "8" -> 8 [] c = "9" -> 9

\* The eight operation letters.
OpChars == {"=", "X", "I", "D", "S", "H", "P", "N"}

\* CigarTokenOf with 'X' read as a match.
CigarTokenOf_XAsMatch(c) ==
    CASE c \in Digits -> "Number"
      [] c = "M" -> "Bail"
      [] c \in {"=", "X"} -> "Match"
      [] c = "I" -> "Insertion"
      [] c = "D" -> "Deletion"
      [] c = "S" -> "Softclip"
      [] c = "H" -> "Hardclip"
      [] c = "P" -> "Pad"
      [] c = "N" -> "Skip"
      [] OTHER -> "Bail"

\* CigarToken::try_from(char); "Bail" is the error of both bail! arms.
CigarTokenOf(c) ==
    CASE c \in Digits -> "Number"
      [] c = "M" -> "Bail"
      [] c = "=" -> "Match"
      [] c = "X" -> "Mismatch"
      [] c = "I" -> "Insertion"
      [] c = "D" -> "Deletion"
      [] c = "S" -> "Softclip"
      [] c = "H" -> "Hardclip"
      [] c = "P" -> "Pad"
      [] c = "N" -> "Skip"
      [] OTHER -> "Bail"

CgPrefix == <<"c", "g", ":", "Z", ":">>

IsPrefix(p, s) == Len(p) <= Len(s) /\ SubSeq(s, 1, Len(p)) = p

\* str::trim_start_matches("cg:Z:"): strips the prefix as often as it occurs.
RECURSIVE TrimStartMatches(_, _)
TrimStartMatches(s, p) ==
    IF IsPrefix(p, s) THEN TrimStartMatches(SubSeq(s, Len(p) + 1, Len(s)), p)
    ELSE s

\* chars().chunk_by(key): maximal runs of characters with the same token.
RECURSIVE ChunkBy(_, _)
ChunkBy(s, acc) ==
    IF s = <<>> THEN acc
    ELSE LET tk == CigarTokenOf(Head(s))
             n  == Len(acc)
         IN  IF n > 0 /\ acc[n].tk = tk
             THEN ChunkBy(Tail(s), [acc EXCEPT ![n].elems = Append(@, Head(s))])
             ELSE ChunkBy(Tail(s), Append(acc, [tk |-> tk, elems |-> <<Head(s)>>]))

U32Max == <<"4", "2", "9", "4", "9", "6", "7", "2", "9", "5">>

RECURSIVE StripZeros(_)
StripZeros(ds) ==
    IF Len(ds) > 1 /\ Head(ds) = "0" THEN StripZeros(Tail(ds)) ELSE ds

\* Order of two canonical numerals of the same length.
RECURSIVE NumeralLeq(_, _)
NumeralLeq(a, b) ==
    IF a = <<>> THEN TRUE
    ELSE IF DigitVal(Head(a)) # DigitVal(Head(b))
         THEN DigitVal(Head(a)) < DigitVal(Head(b))
         ELSE NumeralLeq(Tail(a), Tail(b))

FitsU32(ds) == Len(ds) < Len(U32Max) \/ (Len(ds) = Len(U32Max) /\ NumeralLeq(ds, U32Max))

\* str::parse::<u32>() of the characters of one group; the value is the
\* canonical numeral.
ParseU32(elems) ==
    IF \E i \in DOMAIN elems : elems[i] \notin Digits
    THEN [ok |-> FALSE, num |-> <<>>]
    ELSE LET ds == StripZeros(elems)
         IN  IF FitsU32(ds) THEN [ok |-> TRUE, num |-> ds]
             ELSE [ok |-> FALSE, num |-> <<>>]

CigarFail == [status |-> "fail", ops |-> <<>>]

\* The while-let loop of parse_cigar over the groups: two groups are taken
\* per iteration, and the loop ends as soon as either next() is None.
RECURSIVE ParsePairs(_, _, _)
ParsePairs(groups, i, ops) ==
    IF i + 1 > Len(groups) THEN [status |-> "ok", ops |-> ops]
    ELSE LET tk  == groups[i].tk
             ntk == groups[i + 1].tk
             num == ParseU32(groups[i].elems)
         IN  IF ~num.ok THEN CigarFail
             ELSE IF tk = "Number" /\ ntk # "Number"
                  THEN ParsePairs(groups, i + 2,
                                  Append(ops, [kind |-> ntk, len |-> num.num]))
                  ELSE CigarFail

\* parse_cigar.  A character that CigarToken::try_from rejects makes the
\* unwrap in the chunk_by key panic; a successful return needs an exhausted
\* character iterator, so such a string never yields Ok.  The panic and the
\* Err return are both the status "fail".
parse_cigar(s) ==
    LET t == TrimStartMatches(s, CgPrefix)
    IN  IF \E i \in DOMAIN t : CigarTokenOf(t[i]) = "Bail" THEN CigarFail
        ELSE ParsePairs(ChunkBy(t, <<>>), 1, <<>>)

\* ------------------------------------------------------------------------
\* Specification of the decoder: parse_cigar applied to bounded strings
\* ------------------------------------------------------------------------
MaxCgTokens == 4

\* Building blocks of the operation strings given to the decoder.
CgTokens ==
    {<<c>> : c \in OpChars} \cup
    {<<"1">>, <<"0", "7">>, U32Max}

RECURSIVE Concat(_)
Concat(ss) == IF ss = <<>> THEN <<>> ELSE Head(ss) \o Concat(Tail(ss))

CgStrings == {Concat(ts) : ts \in SeqsUpTo(CgTokens, MaxCgTokens)}

\* Strings with the tag prefix, with a length above u32::MAX, with the
\* letter M and with a character outside the alphabet.
CgExtras ==
    LET over == <<"4", "2", "9", "4", "9", "6", "7", "2", "9", "6">>
    IN  {CgPrefix \o <<"1", "=">>, CgPrefix \o CgPrefix \o <<"1", "X">>,
         over \o <<"=">>, <<"1", "=">> \o over \o <<"X">>, over,
         <<"M">>, <<"1", "M">>, <<"1", "=", "M">>, <<"1", "=", "1", "M">>,
         <<"1", "M", "1", "=">>,
         <<"?">>, <<"1", "?">>, <<"1", "=", "?">>, <<"1", "=", "1", "?">>,
         <<"1", "?", "1", "=">>}

InitCigar ==
    /\ pc = "cigar_start"
    /\ cg \in CgStrings \cup CgExtras
    /\ cigar_ops = [status |-> "none", ops |-> <<>>]
    /\ IdleIndex /\ IdleWalk /\ IdleRegions /\ IdleMonomers

ParseCigar ==
    /\ pc = "cigar_start"
    /\ cigar_ops' = parse_cigar(cg)
    /\ pc' = "cigar_done"
    /\ UNCHANGED <<cg, indexVars, walkVars, regionVars, monoVars>>

NextCigar == ParseCigar

SpecCigar == InitCigar /\ [][NextCigar]_vars

\* Letter of an operation kind, for re-encoding.
OpLetter(kind) ==
    CASE kind = "Match" -> "=" [] kind = "Mismatch" -> "X"
      [] kind = "Insertion" -> "I" [] kind = "Deletion" -> "D"
      [] kind = "Softclip" -> "S" [] kind = "Hardclip" -> "H"
      [] kind = "Pad" -> "P" [] kind = "Skip" -> "N"

\* Re-encoding: decimal length followed by the operation letter.
RECURSIVE EncodeOps(_)
EncodeOps(ops) ==
    IF ops = <<>> THEN <<>>
    ELSE Head(ops).len \o <<OpLetter(Head(ops).kind)>> \o EncodeOps(Tail(ops))

\* s matches (digits opchar)+ over the eight letters.
MatchesGrammar(s) ==
    /\ Len(s) > 0
    /\ \A i \in DOMAIN s : s[i] \in Digits \cup OpChars
    /\ s[1] \in Digits
    /\ s[Len(s)] \in OpChars
    /\ \A i \in 1..(Len(s) - 1) : s[i] \in OpChars => s[i + 1] \in Digits

\* The digit groups of s: maximal runs of digits.
DigitGroups(s) ==
    {SubSeq(s, p[1], p[2]) : p \in
        {p \in (DOMAIN s) \X (DOMAIN s) :
            /\ p[1] <= p[2]
            /\ \A k \in p[1]..p[2] : s[k] \in Digits
            /\ (p[1] = 1 \/ s[p[1] - 1] \notin Digits)
            /\ (p[2] = Len(s) \/ s[p[2] + 1] \notin Digits)}}

\* A numeral as str::parse::<u32> and Display agree on it: no leading zero,
\* value at most u32::MAX.
CanonicalU32(ds) == (Len(ds) = 1 \/ Head(ds) # "0") /\ FitsU32(ds)

\* C3 (as stated): every string of the grammar decodes, and re-encoding the
\* operations reproduces the string, whatever its digit groups.
C3_RoundTripAnyDigits ==
    (pc = "cigar_done" /\ MatchesGrammar(cg)) =>
        (cigar_ops.status = "ok" /\ EncodeOps(cigar_ops.ops) = cg)

\* C3 (amended): the round trip holds for the strings of the grammar whose
\* digit groups are canonical u32 numerals.
C3_RoundTripCanonical ==
    (pc = "cigar_done" /\ MatchesGrammar(cg)
        /\ \A g \in DigitGroups(cg) : CanonicalU32(g)) =>
        (cigar_ops.status = "ok" /\ EncodeOps(cigar_ops.ops) = cg)

C3_Witness ==
    /\ pc = "cigar_done"
    /\ cg = <<"1", "=">> \o U32Max \o <<"=">>
    /\ cigar_ops.status = "ok"
    /\ Len(cigar_ops.ops) = 2

\* The string handed to the loop is a strict alternation of (digit group,
\* single operation letter) pairs whose digit groups parse as u32.
WellFormedCigar(t) ==
    t = <<>> \/ (MatchesGrammar(t) /\ \A g \in DigitGroups(t) : FitsU32(StripZeros(g)))

\* C4: parse_cigar fails for every string that is not a strict alternation
\* of (digit group, operation letter) pairs with u32 digit groups, and on
\* success every character group has gone into exactly one operation.
C4_MalformedAlwaysFails ==
    pc = "cigar_done" =>
        LET t == TrimStartMatches(cg, CgPrefix)
        IN  /\ ~WellFormedCigar(t) => cigar_ops.status = "fail"
            /\ cigar_ops.status = "ok" =>
                   Len(ChunkBy(t, <<>>)) = 2 * Len(cigar_ops.ops)

\* ------------------------------------------------------------------------
\* Coordinate walker (cigar.rs, get_aligned_paired_itvs)
\* ------------------------------------------------------------------------
\* Value of a canonical numeral that fits the checker's integers.
RECURSIVE NumVal(_, _)
NumVal(ds, acc) ==
    IF ds = <<>> THEN acc ELSE NumVal(Tail(ds), 10 * acc + DigitVal(Head(ds)))

\* (q_adj, t_adj) of one operation; Hardclip is skipped with `continue`.
QAdj(op) ==
    IF op.kind \in {"Match", "Mismatch", "Insertion", "Softclip", "Pad"}
    THEN NumVal(op.len, 0) ELSE 0

TAdj(op) ==
    IF op.kind \in {"Match", "Mismatch", "Deletion", "Skip"}
    THEN NumVal(op.len, 0) ELSE 0

\* LongEnough with a non-strict comparison.
LongEnough_AtLeast(q_adj, t_adj, m) == q_adj >= m /\ t_adj >= m

\* The emission test of the walker.
LongEnough(q_adj, t_adj, m) == q_adj > m /\ t_adj > m

\* The for loop over the decoded operations.
RECURSIVE WalkOps(_, _, _, _, _)
WalkOps(ops, qpos, pos, m, itvs) ==
    IF ops = <<>> THEN itvs
    ELSE LET op == Head(ops)
         IN  IF op.kind = "Hardclip" THEN WalkOps(Tail(ops), qpos, pos, m, itvs)
             ELSE LET q_adj == QAdj(op)
                      t_adj == TAdj(op)
                      pair  == [q |-> [start |-> qpos, stop |-> qpos + q_adj],
                                t |-> [start |-> pos, stop |-> pos + t_adj]]
                  IN  WalkOps(Tail(ops), qpos + q_adj, pos + t_adj, m,
                              IF LongEnough(q_adj, t_adj, m)
                              THEN Append(itvs, pair) ELSE itvs)

WalkFail == [status |-> "fail", itvs |-> <<>>]

\* get_aligned_paired_itvs that returns no pairs for a missing string.
get_aligned_paired_itvs_SkipNoCigar(r, m) ==
    IF r.cg = <<>> THEN [status |-> "ok", itvs |-> <<>>]
    ELSE LET cg_ops == parse_cigar(r.cg[1])
         IN  IF cg_ops.status # "ok" THEN WalkFail
             ELSE [status |-> "ok",
                   itvs |-> WalkOps(cg_ops.ops, r.query_start, r.target_start, m, <<>>)]

\* An Option is a sequence of length 0 (None) or 1 (Some).
get_aligned_paired_itvs(r, m) ==
    IF r.cg = <<>> THEN WalkFail
    ELSE LET cg_ops == parse_cigar(r.cg[1])
         IN  IF cg_ops.status # "ok" THEN WalkFail
             ELSE [status |-> "ok",
                   itvs |-> WalkOps(cg_ops.ops, r.query_start, r.target_start, m, <<>>)]

\* ------------------------------------------------------------------------
\* Specification of the walker
\* ------------------------------------------------------------------------
MaxOps == 2
MaxOpLen == 2
MaxStart == 1
MaxMinLength == 1

OpKinds == {"Match", "Mismatch", "Insertion", "Deletion",
            "Softclip", "Hardclip", "Pad", "Skip"}

RECURSIVE DecimalOf(_)
DecimalOf(n) ==
    IF n < 10 THEN <<CHOOSE c \in Digits : DigitVal(c) = n>>
    ELSE Append(DecimalOf(n \div 10), CHOOSE c \in Digits : DigitVal(c) = n % 10)

WalkOpsInputs ==
    SeqsUpTo([kind : OpKinds, len : {DecimalOf(n) : n \in 1..MaxOpLen}], MaxOps)

\* Operation strings of the walker's records: every encoded operation
\* sequence, a missing string and one the decoder rejects.
WalkCgs ==
    {<<EncodeOps(ops)>> : ops \in WalkOpsInputs} \cup {<<>>, <<<<"2", "M">>>>}

InitWalk ==
    /\ pc = "walk_start"
    /\ rec \in [query_start : 0..MaxStart, target_start : {2}, cg : WalkCgs]
    /\ min_length \in 0..MaxMinLength
    /\ paired_itvs = [status |-> "none", itvs |-> <<>>]
    /\ IdleIndex /\ IdleCigar /\ IdleRegions /\ IdleMonomers

GetAlignedPairedItvs ==
    /\ pc = "walk_start"
    /\ paired_itvs' = get_aligned_paired_itvs(rec, min_length)
    /\ pc' = "walk_done"
    /\ UNCHANGED <<rec, min_length, indexVars, cigarVars, regionVars, monoVars>>

NextWalk == GetAlignedPairedItvs

SpecWalk == InitWalk /\ [][NextWalk]_vars

\* The advances as the walker's contract states them.
QueryAdvance(op) ==
    CASE op.kind \in {"Match", "Mismatch"} -> NumVal(op.len, 0)
      [] op.kind \in {"Insertion", "Softclip", "Pad"} -> NumVal(op.len, 0)
      [] OTHER -> 0

TargetAdvance(op) ==
    CASE op.kind \in {"Match", "Mismatch"} -> NumVal(op.len, 0)
      [] op.kind \in {"Deletion", "Skip"} -> NumVal(op.len, 0)
      [] OTHER -> 0

RECURSIVE SumBefore(_, _, _)
SumBefore(Adv(_), ops, i) ==
    IF i <= 1 THEN 0 ELSE SumBefore(Adv, ops, i - 1) + Adv(ops[i - 1])

\* The pair the contract gives operation i.
ContractPair(r, ops, i) ==
    LET q0 == r.query_start + SumBefore(QueryAdvance, ops, i)
        t0 == r.target_start + SumBefore(TargetAdvance, ops, i)
    IN  [q |-> [start |-> q0, stop |-> q0 + QueryAdvance(ops[i])],
         t |-> [start |-> t0, stop |-> t0 + TargetAdvance(ops[i])]]

RetainValid(lapper, labels) == {m \in labels : IsValidPeriod(lapper, Len(m))}

\* SaturatingSub as an absolute difference.
SaturatingSub_AbsDiff(a, b) == IF a > b THEN a - b ELSE b - a

\* itv_2.1.saturating_sub(itv_1.2)
SaturatingSub(a, b) == IF a > b THEN a - b ELSE 0

\* WithinDst with a strict comparison.
WithinDst_Strict(itv_1, itv_2, d) ==
    SaturatingSub(itv_2.st, itv_1.end) < d /\ itv_1.chrom = itv_2.chrom

\* The merge test: within distance and same name.
WithinDst(itv_1, itv_2, d) ==
    SaturatingSub(itv_2.st, itv_1.end) <= d /\ itv_1.chrom = itv_2.chrom

\* The interval pushed back to the front by a merge.
Merged(itv_1, itv_2) ==
    [chrom |-> itv_1.chrom, st |-> itv_1.st, end |-> itv_2.end,
     labels |-> itv_1.labels \cup itv_2.labels]

\* Keep with a non-strict length test.
Keep_AtLeast(itv_1, filtered, ml) == (itv_1.end - itv_1.st) >= ml /\ filtered # {}

\* The emission test of a finalized interval that is not the last one.
Keep(itv_1, filtered, ml) == (itv_1.end - itv_1.st) > ml /\ filtered # {}

\* Names of the input, in their string order.
Chroms == <<"chr1", "chr2">>

ChromRank(c) == CHOOSE i \in DOMAIN Chroms : Chroms[i] = c

\* The comparison of the initial sort: (&a.0, a.1).cmp(&(&b.0, b.1)).
SortKeyLess(a, b) ==
    \/ ChromRank(a.chrom) < ChromRank(b.chrom)
    \/ (a.chrom = b.chrom /\ a.st < b.st)

MaxIntervals == 2
MaxCoord == 2
MaxDst == 1

\* Label sets of the input lines (split(',') never yields an empty set): a
\* label of length 2 and a label of length 3.
LabelSets == {{<<"A", "C">>}, {<<"A", "C", "G">>}}

\* Input intervals: BED intervals, start <= end.
RegionItvs ==
    {i \in [chrom : Range(Chroms), st : 0..MaxCoord, end : 0..MaxCoord,
            labels : LabelSets] : i.st <= i.end}

\* What the stable sort by (chrom, start) can leave in the queue.
SortedInputs ==
    {b \in SeqsUpTo(RegionItvs, MaxIntervals) :
        \A i \in 1..(Len(b) - 1) : ~SortKeyLess(b[i + 1], b[i])}

\* Tolerance of the Regions and Monomers runs.
RunDiff == [num |-> 1, den |-> 2]

InitRegions ==
    /\ pc = "regions_loop"
    /\ sizes = <<2>>
    /\ diff = RunDiff
    /\ monomer_period_range = create_monomer_range(sizes, diff)
    /\ query = Idle /\ valid = Idle
    /\ bed \in SortedInputs
    /\ intervals = bed
    /\ final_intervals = <<>>
    /\ dst \in 0..MaxDst
    /\ min_len \in {0, 1}
    /\ iters = 0
    /\ IdleCigar /\ IdleWalk /\ IdleMonomers

\* Iteration whose second pop_front finds the queue empty: the last interval.
RegionsLast ==
    /\ pc = "regions_loop"
    /\ Len(intervals) = 1
    /\ LET itv_1 == Head(intervals)
       IN  final_intervals' = Append(final_intervals,
               [itv_1 EXCEPT !.labels = RetainValid(monomer_period_range, @)])
    /\ intervals' = <<>>
    /\ iters' = iters + 1
    /\ pc' = "regions_write"
    /\ UNCHANGED <<indexVars, cigarVars, walkVars, monoVars, bed, dst, min_len>>

\* Iteration that merges the two front intervals.
RegionsMerge ==
    /\ pc = "regions_loop"
    /\ Len(intervals) >= 2
    /\ LET itv_1 == intervals[1]
           itv_2 == intervals[2]
       IN  /\ WithinDst(itv_1, itv_2, dst)
           /\ intervals' = <<Merged(itv_1, itv_2)>> \o Tail(Tail(intervals))
    /\ iters' = iters + 1
    /\ UNCHANGED <<pc, indexVars, cigarVars, walkVars, monoVars, bed, final_intervals, dst, min_len>>

\* Iteration that finalizes the front interval and keeps the next one.
RegionsFinalize ==
    /\ pc = "regions_loop"
    /\ Len(intervals) >= 2
    /\ LET itv_1 == intervals[1]
           itv_2 == intervals[2]
           filtered == RetainValid(monomer_period_range, itv_1.labels)
       IN  /\ ~WithinDst(itv_1, itv_2, dst)
           /\ final_intervals' =
                  IF Keep(itv_1, filtered, min_len)
                  THEN Append(final_intervals, [itv_1 EXCEPT !.labels = filtered])
                  ELSE final_intervals
           /\ intervals' = <<itv_2>> \o Tail(Tail(intervals))
    /\ iters' = iters + 1
    /\ UNCHANGED <<pc, indexVars, cigarVars, walkVars, monoVars, bed, dst, min_len>>

\* The loop ends on an empty queue (empty input).
RegionsEmpty ==
    /\ pc = "regions_loop"
    /\ intervals = <<>>
    /\ pc' = "regions_write"
    /\ UNCHANGED <<indexVars, cigarVars, walkVars, regionVars, monoVars>>

NextRegions == RegionsLast \/ RegionsMerge \/ RegionsFinalize \/ RegionsEmpty

SpecRegions == InitRegions /\ [][NextRegions]_vars

Gap(a, b) == IF b.st - a.end > 0 THEN b.st - a.end ELSE 0

\* C1: with the front interval A and the next interval B on one chromosome,
\* a gap equal to dst merges them into A.start..B.end with the union of the
\* labels, a gap of dst + 1 finalizes A and leaves B at the front, and
\* intervals on different chromosomes are never merged.
C1_MergeBoundary ==
    [][(pc = "regions_loop" /\ Len(intervals) >= 2) =>
        LET A == intervals[1]
            B == intervals[2]
            rest == SubSeq(intervals, 3, Len(intervals))
            merged == intervals' = <<[chrom |-> A.chrom, st |-> A.st, end |-> B.end,
                                      labels |-> A.labels \cup B.labels]>> \o rest
                      /\ final_intervals' = final_intervals
            apart == intervals' = <<B>> \o rest
        IN  /\ (A.chrom = B.chrom /\ Gap(A, B) = dst) => merged
            /\ (A.chrom = B.chrom /\ Gap(A, B) = dst + 1) => apart
            /\ A.chrom # B.chrom => apart]_vars

\* A merge at a gap of exactly dst > 0 has happened.
C1_Witness ==
    /\ pc = "regions_loop"
    /\ iters = 1
    /\ Len(bed) = 2
    /\ dst > 0
    /\ bed[1].chrom = bed[2].chrom
    /\ bed[2].st - bed[1].end = dst
    /\ Len(intervals) = 1
    /\ intervals[1].st = bed[1].st
    /\ intervals[1].end = bed[2].end
    /\ intervals[1].labels = bed[1].labels \cup bed[2].labels

SpecRegionsFair == SpecRegions /\ WF_vars(NextRegions)

Min2(a, b) == IF a < b THEN a ELSE b

Max2(a, b) == IF a > b THEN a ELSE b

\* C11: a merge step yields an interval that covers both intervals it merged:
\* its start is the smaller start and its end is the larger end, so the end
\* of the front interval never shrinks.
C11_MergeCoversInputs ==
    [][(pc = "regions_loop" /\ Len(intervals) >= 2
            /\ Len(intervals') = Len(intervals) - 1
            /\ final_intervals' = final_intervals
            /\ intervals[1].chrom = intervals[2].chrom
            /\ Gap(intervals[1], intervals[2]) <= dst) =>
        /\ intervals'[1].st = Min2(intervals[1].st, intervals[2].st)
        /\ intervals'[1].end = Max2(intervals[1].end, intervals[2].end)]_vars

\* C12: the loop ends, after one iteration per input interval; the emitted
\* regions ascend by (chromosome, start), and of two consecutive regions on
\* one chromosome the later starts more than dst after the end of the
\* earlier.
C12_OnePassSeparated ==
    /\ <>(pc = "regions_write")
    /\ [](pc = "regions_write" => iters = Len(bed))
    /\ [](pc \in {"regions_loop", "regions_write"} =>
            \A i \in 1..(Len(final_intervals) - 1) :
                LET E == final_intervals[i]
                    F == final_intervals[i + 1]
                IN  /\ \/ ChromRank(E.chrom) < ChromRank(F.chrom)
                       \/ (E.chrom = F.chrom /\ E.st < F.st)
                    /\ E.chrom = F.chrom => F.st - E.end > dst)

\* Two regions of one chromosome, as close as dst allows, were emitted by a
\* run of two iterations.
C12_Witness ==
    /\ pc = "regions_write"
    /\ Len(bed) = 2
    /\ iters = 2
    /\ Len(final_intervals) = 2
    /\ final_intervals[1].chrom = final_intervals[2].chrom
    /\ final_intervals[2].st - final_intervals[1].end = dst + 1

\* ------------------------------------------------------------------------
\* Monomers: the record loop (main.rs, Command::Monomers)
\* ------------------------------------------------------------------------
\* itertools join(","): the strings separated by commas.
RECURSIVE Join(_)
Join(ss) ==
    IF ss = <<>> THEN <<>>
    ELSE IF Len(ss) = 1 THEN ss[1]
    ELSE ss[1] \o <<",">> \o Join(Tail(ss))

\* str::split(','): the pieces between the commas (at least one piece).
RECURSIVE Split(_, _)
Split(s, piece) ==
    IF s = <<>> THEN <<piece>>
    ELSE IF Head(s) = "," THEN <<piece>> \o Split(Tail(s), <<>>)
    ELSE Split(Tail(s), Append(piece, Head(s)))

\* Lapper::new(vec![])
null_lapper == LapperNew(<<>>)

\* monomers.get(query_name).and_then(|mp| mp.get(target_name)).unwrap_or(&null_lapper)
TargetTrChromMonomers(idx, r) ==
    IF r.query_name \in DOMAIN idx /\ r.target_name \in DOMAIN idx[r.query_name]
    THEN idx[r.query_name][r.target_name]
    ELSE null_lapper

\* aln_rpt_len_perc_diff < diff, with aln_rpt_len_perc_diff =
\* |target_len - aln_len| / target_len; a zero target_len gives inf or NaN,
\* for which the comparison is false.
LenDiffBelow(r, df) ==
    LET d == IF r.target_len > r.alignment_block_len
             THEN r.target_len - r.alignment_block_len
             ELSE r.alignment_block_len - r.target_len
    IN  r.target_len > 0 /\ d * df.den < df.num * r.target_len

\* DivBelow that lets a record without an estimate pass.
DivBelow_AbsentPasses(r, ceiling) == IF r.de = <<>> THEN TRUE ELSE r.de[1] < ceiling

\* rec.de().map(|de| *de < max_seq_div).unwrap_or_default()
DivBelow(r, ceiling) == IF r.de = <<>> THEN FALSE ELSE r.de[1] < ceiling

\* The condition of the whole-block branch.
IsWholeBlock(r, df, ceiling) == LenDiffBelow(r, df) /\ DivBelow(r, ceiling)

Line(r, st, end, field) ==
    [name |-> r.query_name, st |-> st, end |-> end, monomers |-> field,
     strand |-> r.strand]

\* The monomer field of the whole-block branch: the patterns of all
\* annotations of the motif with a valid period, joined, then push('.') when
\* the block length is a valid period.
WholeBlockField(lapper, range, r) ==
    LET kept   == SelectSeq(lapper.intervals,
                            LAMBDA m : IsValidPeriod(range, m.val.trf_period))
        joined == Join([i \in DOMAIN kept |-> kept[i].val.trf_monomer])
    IN  IF IsValidPeriod(range, r.alignment_block_len)
        THEN Append(joined, ".")
        ELSE joined

\* Lines of the whole-block branch: none when the field stays empty.
WholeBlockLines(lapper, range, r) ==
    LET field == WholeBlockField(lapper, range, r)
    IN  IF field = <<>> THEN <<>>
        ELSE <<Line(r, r.query_start, r.query_end, field)>>

\* Lapper::find(start, stop): the intervals overlapping [start, stop).
LapperFind(lapper, start, stop) ==
    SelectSeq(lapper.intervals, LAMBDA i : i.start < stop /\ i.stop > start)

\* Survives without the size test.
Survives_AnySize(range, o, q_itv_len) == IsValidPeriod(range, o.val.trf_period)

\* is_period_ovl && at_least_period_size
Survives(range, o, q_itv_len) ==
    IsValidPeriod(range, o.val.trf_period) /\ o.val.trf_period <= q_itv_len

\* Lines of one pair in the decomposed branch.
PairLines(lapper, range, r, pair) ==
    LET ovl       == LapperFind(lapper, pair.t.start, pair.t.stop)
        q_itv_len == pair.q.stop - pair.q.start
        kept      == SelectSeq(ovl, LAMBDA o : Survives(range, o, q_itv_len))
        field     == Join([i \in DOMAIN kept |-> kept[i].val.trf_monomer])
    IN  IF ovl = <<>> \/ field = <<>> THEN <<>>
        ELSE <<Line(r, pair.q.start, pair.q.stop, field)>>

RECURSIVE DecomposedLines(_, _, _, _)
DecomposedLines(lapper, range, r, pairs) ==
    IF pairs = <<>> THEN <<>>
    ELSE PairLines(lapper, range, r, Head(pairs))
         \o DecomposedLines(lapper, range, r, Tail(pairs))

\* monomer_periods.iter().min()
MinMonomerPeriod(szs) == CHOOSE p \in Range(szs) : \A q \in Range(szs) : p <= q

\* ------------------------------------------------------------------------
\* Specification of the Monomers run
\* ------------------------------------------------------------------------
MaxRecs == 2

Monomer(st, end, period, pattern) ==
    [start |-> st, stop |-> end,
     val |-> [trf_period |-> period, trf_monomer |-> pattern]]

\* The annotation index of the run: q1 has two motifs, q2 has no entry.
\* Patterns are non-empty, as in a monomer table.
AnnotationIndex ==
    [q \in {"q1"} |->
        [m \in {"m1", "m2"} |->
            IF m = "m1"
            THEN LapperNew(<<Monomer(0, 3, 2, <<"A", "C">>),
                             Monomer(2, 6, 5, <<"G">>),
                             Monomer(4, 8, 3, <<"T", "T">>),
                             Monomer(5, 8, 2, <<"C", "A">>)>>)
            ELSE LapperNew(<<Monomer(0, 4, 3, <<"C">>),
                             Monomer(1, 8, 4, <<"T">>)>>)]]

\* Operation strings of the records: none, one pair, two pairs (the second
\* after a deletion), and one the decoder rejects.
RecCgs ==
    {<<>>,
     <<<<"6", "=">>>>,
     <<<<"3", "=", "2", "D", "3", "X">>>>,
     <<<<"3", "M">>>>}

PafRecords ==
    [query_name : {"q1", "q2"}, target_name : {"m1", "m2"},
     query_start : {1}, query_end : {7},
     target_start : {0}, target_len : {3}, alignment_block_len : {1, 2, 3},
     strand : {"+"}, cg : RecCgs, de : {<<>>, <<1>>, <<3>>}]

\* Value of rec before the first record is taken.
NoRecord == [query_name |-> "", cg |-> <<>>, de |-> <<>>]

InitMonomers ==
    /\ pc = "monomers_loop"
    /\ sizes = <<2, 8>>
    /\ diff = RunDiff
    /\ monomer_period_range = create_monomer_range(sizes, diff)
    /\ query = Idle /\ valid = Idle
    /\ monomers = AnnotationIndex
    /\ max_seq_div = 2
    /\ n_recs = 0
    /\ mode = Idle
    /\ out = <<>>
    /\ rec = NoRecord /\ min_length = Idle /\ paired_itvs = Idle
    /\ IdleCigar /\ IdleRegions

\* The next record of the reader, sorted by query_start.
NextRecord(r) ==
    /\ pc = "monomers_loop"
    /\ n_recs < MaxRecs
    /\ r \in PafRecords
    /\ n_recs > 0 => r.query_start >= rec.query_start
    /\ rec' = r
    /\ n_recs' = n_recs + 1

\* A record handled by the whole-block branch.
MonomersWholeBlock ==
    \E r \in PafRecords :
        /\ NextRecord(r)
        /\ IsWholeBlock(r, diff, max_seq_div)
        /\ out' = out \o WholeBlockLines(TargetTrChromMonomers(monomers, r),
                                         monomer_period_range, r)
        /\ mode' = "whole"
        /\ UNCHANGED <<pc, indexVars, cigarVars, regionVars, min_length,
                       paired_itvs, monomers, max_seq_div>>

\* A record handled by the decomposed branch.
MonomersDecomposed ==
    \E r \in PafRecords :
        /\ NextRecord(r)
        /\ ~IsWholeBlock(r, diff, max_seq_div)
        /\ LET res == get_aligned_paired_itvs(r, MinMonomerPeriod(sizes))
           IN  /\ res.status = "ok"
               /\ out' = out \o DecomposedLines(TargetTrChromMonomers(monomers, r),
                                                monomer_period_range, r, res.itvs)
        /\ mode' = "decomposed"
        /\ UNCHANGED <<pc, indexVars, cigarVars, regionVars, min_length,
                       paired_itvs, monomers, max_seq_div>>

\* A record whose get_aligned_paired_itvs fails: the `?` ends the run.
MonomersAbort ==
    \E r \in PafRecords :
        /\ NextRecord(r)
        /\ ~IsWholeBlock(r, diff, max_seq_div)
        /\ get_aligned_paired_itvs(r, MinMonomerPeriod(sizes)).status = "fail"
        /\ mode' = "decomposed"
        /\ pc' = "monomers_failed"
        /\ UNCHANGED <<indexVars, cigarVars, regionVars, min_length,
                       paired_itvs, monomers, max_seq_div, out>>

\* The reader is exhausted.
MonomersEnd ==
    /\ pc = "monomers_loop"
    /\ pc' = "monomers_done"
    /\ UNCHANGED <<indexVars, cigarVars, walkVars, regionVars, monoVars>>

NextMonomers ==
    MonomersWholeBlock \/ MonomersDecomposed \/ MonomersAbort \/ MonomersEnd

SpecMonomers == InitMonomers /\ [][NextMonomers]_vars

\* The step takes a record from the reader; rec' is that record.
Handled == pc = "monomers_loop" /\ n_recs' = n_recs + 1

\* The lines the step wrote.
NewLines == SubSeq(out', Len(out) + 1, Len(out'))

\* C6: a record without an operation string, or whose name has no entry in
\* the annotation index, writes no line and raises no error; the run goes on.
C6_UnusableRecordIsSkipped ==
    [][(Handled /\ (rec'.cg = <<>> \/ rec'.query_name \notin DOMAIN monomers)) =>
        (out' = out /\ pc' = "monomers_loop")]_vars

\* C6 (amended): a record without an operation string is not an error only
\* in whole-block mode, where the string is not read; in decomposed mode it
\* ends the run with an error and writes nothing.  A record whose name has
\* no entry in the annotation index writes nothing in decomposed mode, and
\* in whole-block mode writes one line labelled '.' when its block length
\* is a valid period and nothing otherwise.
C6_UnusableRecordByMode ==
    [][Handled =>
        LET r == rec'
            noCg == r.cg = <<>>
            noEntry == r.query_name \notin DOMAIN monomers
            blockValid == IsValidPeriod(monomer_period_range, r.alignment_block_len)
        IN  /\ (noCg /\ mode' = "decomposed") =>
                   (pc' = "monomers_failed" /\ out' = out)
            /\ (noCg /\ mode' = "whole") => pc' = "monomers_loop"
            /\ (noEntry /\ mode' = "decomposed") => out' = out
            /\ (noEntry /\ mode' = "whole") =>
                   /\ pc' = "monomers_loop"
                   /\ IF blockValid
                      THEN /\ Len(NewLines) = 1
                           /\ NewLines[1].monomers = <<".">>
                           /\ NewLines[1].st = r.query_start
                           /\ NewLines[1].end = r.query_end
                      ELSE out' = out]_vars

\* The second record had no operation string and ended the run in
\* decomposed mode, after the first record had written a line.
C6_Witness ==
    /\ pc = "monomers_failed"
    /\ n_recs = 2
    /\ rec.cg = <<>>
    /\ mode = "decomposed"
    /\ Len(out) = 1

\* Patterns of the annotations of the record's motif with a valid period.
ValidPatterns(r) ==
    LET anns == TargetTrChromMonomers(monomers, r).intervals
        kept == SelectSeq(anns, LAMBDA a :
                    IsValidPeriod(monomer_period_range, a.val.trf_period))
    IN  [i \in DOMAIN kept |-> kept[i].val.trf_monomer]

\* C7: in whole-block mode a record writes exactly one line over its full
\* query range when its block length is a valid period or a monomer of the
\* motif has a valid period, and nothing otherwise; when the block length is
\* valid, splitting the label field on ',' gives the surviving patterns,
\* unchanged, and the label '.'.
C7_WholeBlockSentinel ==
    [][(Handled /\ mode' = "whole") =>
        LET r == rec'
            blockValid == IsValidPeriod(monomer_period_range, r.alignment_block_len)
            patterns == ValidPatterns(r)
        IN  /\ IF blockValid \/ patterns # <<>>
               THEN /\ Len(NewLines) = 1
                    /\ NewLines[1].st = r.query_start
                    /\ NewLines[1].end = r.query_end
               ELSE NewLines = <<>>
            /\ blockValid =>
                   Split(NewLines[1].monomers, <<>>) = Append(patterns, <<".">>)]_vars

\* |target_len - alignment_block_len| / target_len < diff
LengthCondition(r) ==
    /\ r.target_len > 0
    /\ \/ /\ r.target_len >= r.alignment_block_len
          /\ (r.target_len - r.alignment_block_len) * diff.den < diff.num * r.target_len
       \/ /\ r.target_len < r.alignment_block_len
          /\ (r.alignment_block_len - r.target_len) * diff.den < diff.num * r.target_len

\* C8 (as stated): whole-block mode exactly when the length condition holds
\* and the divergence estimate, if the record has one, is below the ceiling.
C8_WholeBlockIfNoEstimate ==
    [][Handled =>
        (mode' = "whole" <=>
            (LengthCondition(rec') /\ (rec'.de = <<>> \/ rec'.de[1] < max_seq_div)))]_vars

\* C8 (amended): whole-block mode exactly when the length condition holds
\* and the record has a divergence estimate below the ceiling; every other
\* record, one without an estimate included, is handled in decomposed mode.
C8_WholeBlockNeedsEstimate ==
    [][Handled =>
        /\ mode' = "whole" <=>
               (LengthCondition(rec') /\ rec'.de # <<>> /\ rec'.de[1] < max_seq_div)
        /\ mode' \in {"whole", "decomposed"}]_vars

\* A record without an estimate that meets the length condition was handled
\* in decomposed mode and wrote a line there.
C8_Witness ==
    /\ pc = "monomers_loop"
    /\ n_recs = 1
    /\ mode = "decomposed"
    /\ rec.de = <<>>
    /\ LengthCondition(rec)
    /\ Len(out) = 1

\* C10: in decomposed mode every pair of the walker (threshold: the smallest
\* requested period) writes exactly one line over its query range when an
\* annotation overlapping its target range has a valid period no larger than
\* the query length, with exactly the patterns of those annotations as
\* labels, and no line otherwise.
C10_DecomposedLines ==
    [][(Handled /\ mode' = "decomposed" /\ pc' = "monomers_loop") =>
        LET r == rec'
            m == CHOOSE p \in Range(sizes) : \A q \in Range(sizes) : p <= q
            pairs == get_aligned_paired_itvs(r, m).itvs
            anns == TargetTrChromMonomers(monomers, r).intervals
            Surv(k) == SelectSeq(anns, LAMBDA a :
                           /\ a.start < pairs[k].t.stop
                           /\ pairs[k].t.start < a.stop
                           /\ IsValidPeriod(monomer_period_range, a.val.trf_period)
                           /\ a.val.trf_period <= pairs[k].q.stop - pairs[k].q.start)
            LinesOf(k) == {i \in DOMAIN NewLines :
                              /\ NewLines[i].st = pairs[k].q.start
                              /\ NewLines[i].end = pairs[k].q.stop}
        IN  /\ Len(NewLines) = Cardinality({k \in DOMAIN pairs : Surv(k) # <<>>})
            /\ \A k \in DOMAIN pairs :
                   /\ Cardinality(LinesOf(k)) = IF Surv(k) # <<>> THEN 1 ELSE 0
                   /\ \A i \in LinesOf(k) :
                          Split(NewLines[i].monomers, <<>>) =
                              [j \in DOMAIN Surv(k) |-> Surv(k)[j].val.trf_monomer]]_vars

\* One record wrote two lines, one per pair, in decomposed mode.
C10_Witness ==
    /\ pc = "monomers_loop"
    /\ n_recs = 1
    /\ mode = "decomposed"
    /\ Len(out) = 2
    /\ out[1].end = out[2].st
    /\ Len(Split(out[1].monomers, <<>>)) = 1

=============================================================================
